---- MODULE Spec2Model ----
(***************************************************************************)
(* A model of the travel planner (src/app.py): the duration parser, the    *)
(* stop catalog and selector, the itinerary assembler with its timeline    *)
(* builder, and the script's session handling (migration of the stored     *)
(* plan, the Generate handler, the render step).                           *)
(*                                                                         *)
(* Representation.                                                         *)
(*  - A clock time is a number of minutes after midnight (0..1439), a date *)
(*    a day ordinal, a datetime the number date * 1440 + minutes.          *)
(*  - A duration text is the sequence of its characters, so that the       *)
(*    regular expressions of the parser are modelled on the text itself;   *)
(*    the characters U+2013 and U+2014 are written EN_DASH and EM_DASH.    *)
(*  - Names are strings; the catalog's "Local Breakfast Caf\'e" is written *)
(*    without its accent.  str.lower and str.strip are tables over the     *)
(*    strings the model draws.                                             *)
(*  - A formatted clock time ("9:05 AM") is the record of its parts.       *)
(***************************************************************************)
EXTENDS Integers, Sequences, FiniteSets, TLC

VARIABLES
    latest_plan,      \* st.session_state.latest_plan
    pc,               \* position of the script run
    req,              \* the sidebar's widget values of the run
    i,                \* build_detailed_itinerary: loop variable of the day loop
    must_idx,         \* build_detailed_itinerary: index into must_visit
    used_names,       \* build_detailed_itinerary: names already placed
    places,           \* build_detailed_itinerary: the current day's ordered stops
    itinerary_days,   \* build_detailed_itinerary: the days built so far
    screen,           \* what the run has written to the page
    rerun,            \* the run was started by st.rerun()
    generated,        \* the session has generated its itinerary
    pick_call         \* a call of pick_places on its own: arguments and result

vars == <<latest_plan, pc, req, i, must_idx, used_names, places,
          itinerary_days, screen, rerun, generated, pick_call>>

-----------------------------------------------------------------------------
(* Bounds of the model.                                                    *)

\* longest must-visit list drawn
MaxMust == 3
\* largest end_date - start_date drawn (the smallest is -1, an inverted range)
MaxSpan == 1
\* largest num_stops a call of pick_places on its own is given
MaxStops == 4

-----------------------------------------------------------------------------
(* Characters and strings.                                                 *)

Digits == {"0", "1", "2", "3", "4", "5", "6", "7", "8", "9"}

DigitVal(c) ==
    CASE c = "0" -> 0 [] c = "1" -> 1 [] c = "2" -> 2 [] c = "3" -> 3
      [] c = "4" -> 4 [] c = "5" -> 5 [] c = "6" -> 6 [] c = "7" -> 7
      [] c = "8" -> 8 [] c = "9" -> 9

\* the whitespace the texts of the model use (\s of the regular expressions)
IsSpace(c) == c \in {" ", "\t"}

UpperToLower ==
    "A" :> "a" @@ "B" :> "b" @@ "C" :> "c" @@ "D" :> "d" @@ "E" :> "e" @@
    "F" :> "f" @@ "G" :> "g" @@ "H" :> "h" @@ "I" :> "i" @@ "J" :> "j" @@
    "K" :> "k" @@ "L" :> "l" @@ "M" :> "m" @@ "N" :> "n" @@ "O" :> "o" @@
    "P" :> "p" @@ "Q" :> "q" @@ "R" :> "r" @@ "S" :> "s" @@ "T" :> "t" @@
    "U" :> "u" @@ "V" :> "v" @@ "W" :> "w" @@ "X" :> "x" @@ "Y" :> "y" @@
    "Z" :> "z"

LowerChar(c) == IF c \in DOMAIN UpperToLower THEN UpperToLower[c] ELSE c

\* s.replace(EN_DASH, "-").replace(EM_DASH, "-"), one character
DashChar(c) == IF c \in {"EN_DASH", "EM_DASH"} THEN "-" ELSE c

RECURSIVE StripLeft(_)
StripLeft(s) ==
    IF s # <<>> /\ IsSpace(Head(s)) THEN StripLeft(Tail(s)) ELSE s

RECURSIVE StripRight(_)
StripRight(s) ==
    IF s # <<>> /\ IsSpace(s[Len(s)])
    THEN StripRight(SubSeq(s, 1, Len(s) - 1))
    ELSE s

\* (duration_text or "").strip().lower(), then both dashes replaced by "-"
NormalizeDuration(text) ==
    LET stripped == StripRight(StripLeft(text))
    IN  [k \in 1..Len(stripped) |-> DashChar(LowerChar(stripped[k]))]

AllDigits(t) == t # <<>> /\ \A k \in 1..Len(t) : t[k] \in Digits

\* t matches \d+(\.\d+)?
IsNumber(t) ==
    LET dots == {p \in 1..Len(t) : t[p] = "."}
    IN  \/ AllDigits(t)
        \/ /\ Cardinality(dots) = 1
           /\ LET p == CHOOSE q \in dots : TRUE
              IN  /\ AllDigits(SubSeq(t, 1, p - 1))
                  /\ AllDigits(SubSeq(t, p + 1, Len(t)))

\* the indices j such that s[from..j-1] matches \d+(\.\d+)?
NumEnds(s, from) ==
    {j \in (from + 1)..(Len(s) + 1) : IsNumber(SubSeq(s, from, j - 1))}

\* the indices j such that s[from..j-1] matches \d+
IntEnds(s, from) ==
    {j \in (from + 1)..(Len(s) + 1) : AllDigits(SubSeq(s, from, j - 1))}

\* the first index at or after from that holds no whitespace (\s*, which the
\* expressions always follow by a character that is not whitespace)
RECURSIVE SkipSpaces(_, _)
SkipSpaces(s, from) ==
    IF from <= Len(s) /\ IsSpace(s[from]) THEN SkipSpaces(s, from + 1) ELSE from

HasWordAt(s, from, w) ==
    /\ from + Len(w) - 1 <= Len(s)
    /\ SubSeq(s, from, from + Len(w) - 1) = w

\* (hour|hours|hr|hrs) matches at from
HourUnitAt(s, from) ==
    \/ HasWordAt(s, from, <<"h", "o", "u", "r">>)
    \/ HasWordAt(s, from, <<"h", "o", "u", "r", "s">>)
    \/ HasWordAt(s, from, <<"h", "r">>)
    \/ HasWordAt(s, from, <<"h", "r", "s">>)

\* (min|mins|minute|minutes) matches at from
MinUnitAt(s, from) ==
    \/ HasWordAt(s, from, <<"m", "i", "n">>)
    \/ HasWordAt(s, from, <<"m", "i", "n", "s">>)
    \/ HasWordAt(s, from, <<"m", "i", "n", "u", "t", "e">>)
    \/ HasWordAt(s, from, <<"m", "i", "n", "u", "t", "e", "s">>)

RECURSIVE DigitsValue(_)
DigitsValue(t) ==
    IF t = <<>> THEN 0
    ELSE 10 * DigitsValue(SubSeq(t, 1, Len(t) - 1)) + DigitVal(t[Len(t)])

Min2(a, b) == IF a <= b THEN a ELSE b

\* Natural numbers of any size, written as their binary digits, the lowest
\* first: the arithmetic of a Python float (an IEEE 754 double) needs 53
\* binary digits and more.
RECURSIVE BitsOf(_)
BitsOf(n) == IF n = 0 THEN <<>> ELSE <<n % 2>> \o BitsOf(n \div 2)

RECURSIVE BitsVal(_)
BitsVal(b) == IF b = <<>> THEN 0 ELSE Head(b) + 2 * BitsVal(Tail(b))

\* without the zeros at the high end
BitsTrim(b) ==
    LET ones == {k \in 1..Len(b) : b[k] = 1}
    IN  IF ones = {} THEN <<>>
        ELSE SubSeq(b, 1, CHOOSE k \in ones : \A j \in ones : j <= k)

Zeros(k) == [j \in 1..k |-> 0]

RECURSIVE Pow2(_)
Pow2(n) == IF n = 0 THEN 1 ELSE 2 * Pow2(n - 1)

\* the c lowest binary digits of v
FixedBits(v, c) == [j \in 1..c |-> (v \div Pow2(j - 1)) % 2]

\* a + b + carry, twelve digits at a step
RECURSIVE BitsAdd(_, _, _)
BitsAdd(a, b, carry) ==
    IF a = <<>> /\ b = <<>> THEN (IF carry = 1 THEN <<1>> ELSE <<>>)
    ELSE LET x == BitsVal(SubSeq(a, 1, Min2(12, Len(a))))
             y == BitsVal(SubSeq(b, 1, Min2(12, Len(b))))
             s == x + y + carry
         IN  FixedBits(s, 12)
                \o BitsAdd(SubSeq(a, 13, Len(a)), SubSeq(b, 13, Len(b)),
                           s \div 4096)

\* the division of the digits a[1..k] of a by the small number d, the
\* digits above k already divided: rem is their remainder, quot their
\* quotient; the result is [quot, rem].  Long division from the high end,
\* twelve digits at a step.
RECURSIVE BitsDivide(_, _, _, _, _)
BitsDivide(a, k, d, rem, quot) ==
    IF k = 0 THEN [quot |-> quot, rem |-> rem]
    ELSE LET c == IF k % 12 = 0 THEN 12 ELSE k % 12
             r == rem * Pow2(c) + BitsVal(SubSeq(a, k - c + 1, k))
         IN  BitsDivide(a, k - c, d, r % d, FixedBits(r \div d, c) \o quot)

\* A double is [m, e], the number m * 2^e, m given by its digits and odd
\* (zero is [<<>>, 0]).
Double(m, e) ==
    IF BitsTrim(m) = <<>> THEN [m |-> <<>>, e |-> 0]
    ELSE LET low == CHOOSE k \in 1..Len(m) :
                       m[k] = 1 /\ \A j \in 1..(k - 1) : m[j] = 0
         IN  [m |-> BitsTrim(SubSeq(m, low, Len(m))), e |-> e + low - 1]

\* the double nearest to bits * 2^e (+ something below one unit of bits * 2^e
\* if sticky): 53 digits are kept, a half goes to the even side
RoundToDouble(bits, sticky, e) ==
    LET b == BitsTrim(bits)
        k == Len(b) - 53
    IN  IF k <= 0 THEN Double(b, e)
        ELSE LET kept == SubSeq(b, k + 1, Len(b))
                 half == b[k] = 1
                 rest == sticky \/ \E j \in 1..(k - 1) : b[j] = 1
                 up   == half /\ (rest \/ kept[1] = 1)
             IN  Double(IF up THEN BitsAdd(kept, <<1>>, 0) ELSE kept, e + k)

RECURSIVE Pow10(_)
Pow10(n) == IF n = 0 THEN 1 ELSE 10 * Pow10(n - 1)

\* float(t) of a text matching \d+(\.\d+)?: the double nearest to the decimal
\* number; the quotient of n * 2^q by 10^f has 57 digits or more
NumberValue(t) ==
    LET dots == {p \in 1..Len(t) : t[p] = "."}
        p    == IF dots = {} THEN Len(t) + 1 ELSE CHOOSE q \in dots : TRUE
        f    == Len(t) - Min2(p, Len(t))
        n    == DigitsValue(SubSeq(t, 1, p - 1)) * Pow10(f)
                   + DigitsValue(SubSeq(t, p + 1, Len(t)))
        q    == 56 + 4 * f
        num  == Zeros(q) \o BitsOf(n)
        dv   == BitsDivide(num, Len(num), Pow10(f), 0, <<>>)
    IN  IF n = 0 THEN Double(<<>>, 0)
        ELSE RoundToDouble(dv.quot, dv.rem # 0, 0 - q)

\* x + y of two doubles
DoubleAdd(x, y) ==
    LET e0 == Min2(x.e, y.e)
    IN  RoundToDouble(BitsAdd(Zeros(x.e - e0) \o x.m, Zeros(y.e - e0) \o y.m, 0),
                      FALSE, e0)

\* x / 2.0
DoubleHalf(x) == IF x.m = <<>> THEN x ELSE [m |-> x.m, e |-> x.e - 1]

\* x * 60: 60 = 4 + 8 + 16 + 32
DoubleTimes60(x) ==
    RoundToDouble(BitsAdd(BitsAdd(Zeros(2) \o x.m, Zeros(3) \o x.m, 0),
                          BitsAdd(Zeros(4) \o x.m, Zeros(5) \o x.m, 0), 0),
                  FALSE, x.e)

\* int(round(x)) for a double x >= 0: Python rounds a half to the even side
IntRound(x) ==
    IF x.e >= 0 THEN BitsVal(Zeros(x.e) \o x.m)
    ELSE LET k       == 0 - x.e
             L       == Len(x.m)
             intpart == IF k < L THEN SubSeq(x.m, k + 1, L) ELSE <<>>
             half    == k <= L /\ x.m[k] = 1
             rest    == \E j \in 1..Min2(k - 1, L) : x.m[j] = 1
             up      == half /\ (rest \/ (intpart # <<>> /\ intpart[1] = 1))
         IN  BitsVal(intpart) + (IF up THEN 1 ELSE 0)

\* the matches of (\d+(\.\d+)?)\s*-\s*(\d+(\.\d+)?)\s*(hour|hours|hr|hrs)
\* that begin at from: <<end of group 1, start of group 3, end of group 3>>.
\* At one start there is at most one: the character after each number must be
\* whitespace, "-" or the unit, so neither number can end early.
RangeHourMatches(s, from) ==
    UNION {
        LET dash == SkipSpaces(s, j1)
        IN  IF dash <= Len(s) /\ s[dash] = "-"
            THEN LET b == SkipSpaces(s, dash + 1)
                 IN  {<<j1, b, j2>> :
                        j2 \in {x \in NumEnds(s, b) :
                                   HourUnitAt(s, SkipSpaces(s, x))}}
            ELSE {}
        : j1 \in NumEnds(s, from)}

\* the ends of group 1 of (\d+(\.\d+)?)\s*(hour|hours|hr|hrs) matched at from
SingleHourMatches(s, from) ==
    {j \in NumEnds(s, from) : HourUnitAt(s, SkipSpaces(s, j))}

\* the ends of group 1 of (\d+)\s*(min|mins|minute|minutes) matched at from
MinuteMatches(s, from) ==
    {j \in IntEnds(s, from) : MinUnitAt(s, SkipSpaces(s, j))}

\* re.search: the leftmost start at which the expression matches, 0 if none
MatchStarts(s, kind) ==
    {k \in 1..Len(s) :
        CASE kind = "range_hours"  -> RangeHourMatches(s, k) # {}
          [] kind = "single_hours" -> SingleHourMatches(s, k) # {}
          [] kind = "minutes"      -> MinuteMatches(s, k) # {}}

FirstStart(s, kind) ==
    IF MatchStarts(s, kind) = {} THEN 0
    ELSE CHOOSE k \in MatchStarts(s, kind) :
            \A other \in MatchStarts(s, kind) : k <= other

\* the three searches of parse_duration_to_minutes on the normalized text
RangeHourResult(s, k1) ==
    LET m == CHOOSE x \in RangeHourMatches(s, k1) : TRUE
        a == NumberValue(SubSeq(s, k1, m[1] - 1))
        b == NumberValue(SubSeq(s, m[2], m[3] - 1))
    IN  \* avg = (a + b) / 2.0 ; int(round(avg * 60))
        IntRound(DoubleTimes60(DoubleHalf(DoubleAdd(a, b))))

SingleHourResult(s, k2) ==
    LET j   == CHOOSE x \in SingleHourMatches(s, k2) : TRUE
        hrs == NumberValue(SubSeq(s, k2, j - 1))
    IN  IntRound(DoubleTimes60(hrs))

MinuteResult(s, k3) ==
    LET j == CHOOSE x \in MinuteMatches(s, k3) : TRUE
    IN  DigitsValue(SubSeq(s, k3, j - 1))

ParseNormalized(s) ==
    IF FirstStart(s, "range_hours") # 0
    THEN RangeHourResult(s, FirstStart(s, "range_hours"))
    ELSE IF FirstStart(s, "single_hours") # 0
    THEN SingleHourResult(s, FirstStart(s, "single_hours"))
    ELSE IF FirstStart(s, "minutes") # 0
    THEN MinuteResult(s, FirstStart(s, "minutes"))
    ELSE 90

parse_duration_to_minutes(duration_text) ==
    ParseNormalized(NormalizeDuration(duration_text))

\* dt_obj.strftime("%I:%M %p").lstrip("0") of a datetime: the 12-hour clock
\* time of day, the date dropped
fmt_hhmm(dt_obj) ==
    LET tod == dt_obj % 1440
        h24 == tod \div 60
    IN  [hour   |-> IF h24 % 12 = 0 THEN 12 ELSE h24 % 12,
         minute |-> tod % 60,
         ampm   |-> IF h24 < 12 THEN "AM" ELSE "PM"]

\* a variant that lacks the branch of "Rideshare/Taxi"
travel_time_minutes_no_taxi(transport) ==
    IF transport = "Walking" THEN 15
    ELSE IF transport = "Public Transit" THEN 25
    ELSE IF transport = "Rental Car" THEN 20
    ELSE 20

travel_time_minutes(transport) ==
    IF transport = "Walking" THEN 15
    ELSE IF transport = "Public Transit" THEN 25
    ELSE IF transport = "Rideshare/Taxi" THEN 18
    ELSE IF transport = "Rental Car" THEN 20
    ELSE 20

\* str.lower() on the names and terms of the model (a string not listed is
\* already in lower case)
LowerTable ==
    "Red Rocks" :> "red rocks" @@
    "RED ROCKS" :> "red rocks" @@
    "Local Breakfast Cafe" :> "local breakfast cafe" @@
    "Local Market / Food Street" :> "local market / food street" @@
    "Signature Dinner Spot" :> "signature dinner spot" @@
    "Main City Park / Scenic Viewpoint" :> "main city park / scenic viewpoint" @@
    "Botanical Garden / Nature Trail" :> "botanical garden / nature trail" @@
    "Historic Old Town Walk" :> "historic old town walk" @@
    "Main Museum / Cultural Center" :> "main museum / cultural center" @@
    "Local Bazaar / Artisan Street" :> "local bazaar / artisan street" @@
    "Evening Walk + Night Market" :> "evening walk + night market" @@
    "Active Experience Block" :> "active experience block" @@
    "Spa / Slow Cafe + Park Time" :> "spa / slow cafe + park time" @@
    "Paris" :> "paris" @@
    "Downtown" :> "downtown"

str_lower(s) == IF s \in DOMAIN LowerTable THEN LowerTable[s] ELSE s

\* str.strip() on the texts of the model (a string not listed has no
\* whitespace at either end)
StripTable ==
    "  " :> "" @@
    " A full day in Paris. " :> "A full day in Paris." @@
    " Local Breakfast Cafe" :> "Local Breakfast Cafe" @@
    " Local Market / Food Street" :> "Local Market / Food Street" @@
    " Red Rocks" :> "Red Rocks" @@
    " Paris " :> "Paris"

str_strip(s) == IF s \in DOMAIN StripTable THEN StripTable[s] ELSE s

\* parse_csv_list(text): text is given as its comma-separated fields
RECURSIVE parse_csv_list(_)
parse_csv_list(fields) ==
    IF fields = <<>> THEN <<>>
    ELSE LET x == str_strip(Head(fields))
         IN  (IF x # "" THEN <<x>> ELSE <<>>) \o parse_csv_list(Tail(fields))

-----------------------------------------------------------------------------
(* The place library.  A place keeps the fields the scheduling reads: its  *)
(* name, its duration text and its description (the remaining fields are   *)
(* fixed display texts).                                                   *)

Place(name, duration, description) ==
    [name |-> name, duration |-> duration, description |-> description]

Dur_45_60_min   == <<"4", "5", "EN_DASH", "6", "0", " ", "m", "i", "n">>
Dur_1p5_2_hours == <<"1", ".", "5", "EN_DASH", "2", " ", "h", "o", "u", "r", "s">>
Dur_1p5_2p5_hours ==
    <<"1", ".", "5", "EN_DASH", "2", ".", "5", " ", "h", "o", "u", "r", "s">>
Dur_2_3_hours   == <<"2", "EN_DASH", "3", " ", "h", "o", "u", "r", "s">>
Dur_2_hours     == <<"2", " ", "h", "o", "u", "r", "s">>
Dur_10_min      == <<"1", "0", " ", "m", "i", "n">>

\* the tags in the order the dictionary defines them (PLACE_LIBRARY.values())
LibraryTags ==
    <<"Food", "Nature", "History", "Shopping", "Nightlife", "Adventure", "Relax">>

PLACE_LIBRARY ==
    "Food" :> <<
        Place("Local Breakfast Cafe", Dur_45_60_min,
              "Start with local flavors and a quick energy boost."),
        Place("Local Market / Food Street", Dur_1p5_2_hours,
              "Taste multiple local items in one walkable area."),
        Place("Signature Dinner Spot", Dur_1p5_2_hours,
              "End the day with a well-known local dinner option.")>> @@
    "Nature" :> <<
        Place("Main City Park / Scenic Viewpoint", Dur_1p5_2p5_hours,
              "Fresh air, views, and easy walking."),
        Place("Botanical Garden / Nature Trail", Dur_2_3_hours,
              "A calm block that pairs well with a relaxed pace.")>> @@
    "History" :> <<
        Place("Historic Old Town Walk", Dur_2_3_hours,
              "Heritage streets, architecture, and local culture."),
        Place("Main Museum / Cultural Center", Dur_2_3_hours,
              "Understand local history and context.")>> @@
    "Shopping" :> <<
        Place("Local Bazaar / Artisan Street", Dur_1p5_2p5_hours,
              "Shop unique crafts and local items.")>> @@
    "Nightlife" :> <<
        Place("Evening Walk + Night Market", Dur_1p5_2p5_hours,
              "Lights, snacks, and local vibe for the evening.")>> @@
    "Adventure" :> <<
        Place("Active Experience Block", Dur_2_3_hours,
              "A higher-energy activity for memorable moments.")>> @@
    "Relax" :> <<
        Place("Spa / Slow Cafe + Park Time", Dur_2_3_hours,
              "A slower block for recovery and calm vibes.")>>

\* PLACE_LIBRARY.get(it, [])
LibraryGet(it) == IF it \in DOMAIN PLACE_LIBRARY THEN PLACE_LIBRARY[it] ELSE <<>>

\* pools.extend(PLACE_LIBRARY.get(it, [])) for each tag of the list, in order
RECURSIVE ExtendPools(_)
ExtendPools(tags) ==
    IF tags = <<>> THEN <<>>
    ELSE LibraryGet(Head(tags)) \o ExtendPools(Tail(tags))

\* one of the two "for p in ..." loops of pick_places, from index k on;
\* acc is [picks, used]
RECURSIVE PickLoop(_, _, _, _, _)
PickLoop(pool, k, acc, num_stops, avoid_lower) ==
    IF k > Len(pool) \/ Len(acc.picks) >= num_stops THEN acc
    ELSE LET p == pool[k]
         IN  IF p.name \in acc.used \/ str_lower(p.name) \in avoid_lower
             THEN PickLoop(pool, k + 1, acc, num_stops, avoid_lower)
             ELSE PickLoop(pool, k + 1,
                           [picks |-> Append(acc.picks, p),
                            used  |-> acc.used \cup {p.name}],
                           num_stops, avoid_lower)

\* a variant without the second pass over the whole library
pick_places_no_top_up(interests, num_stops, used, avoid_lower) ==
    LET chosen == ExtendPools(interests)
        pools  == IF chosen = <<>> THEN ExtendPools(LibraryTags) ELSE chosen
    IN  PickLoop(pools, 1, [picks |-> <<>>, used |-> used],
                 num_stops, avoid_lower)

\* pick_places: the result is [picks, used], used the updated used_names
pick_places(interests, num_stops, used, avoid_lower) ==
    LET chosen     == ExtendPools(interests)
        pools      == IF chosen = <<>> THEN ExtendPools(LibraryTags) ELSE chosen
        first      == PickLoop(pools, 1, [picks |-> <<>>, used |-> used],
                               num_stops, avoid_lower)
    IN  IF Len(first.picks) < num_stops
        THEN PickLoop(ExtendPools(LibraryTags), 1, first, num_stops, avoid_lower)
        ELSE first

-----------------------------------------------------------------------------
(* build_detailed_itinerary.                                               *)

Max(a, b) == IF a >= b THEN a ELSE b

\* a variant that does not clamp the number of days to 1
trip_days_unclamped(start_date, end_date) == (end_date - start_date) + 1

\* days = max(1, (end_date - start_date).days + 1)
trip_days(start_date, end_date) == Max(1, (end_date - start_date) + 1)

\* a variant that does not lower the avoid terms
AvoidLower_not_lowered(avoid) ==
    {str_strip(avoid[k]) :
        k \in {n \in 1..Len(avoid) : str_strip(avoid[n]) # ""}}

\* avoid_lower = {a.strip().lower() for a in avoid if a.strip()}
AvoidLower(avoid) ==
    {str_lower(str_strip(avoid[k])) :
        k \in {n \in 1..Len(avoid) : str_strip(avoid[n]) # ""}}

stops_per_day(pace) ==
    IF pace = "Relaxed" THEN 2
    ELSE IF pace = "Packed" THEN 4
    ELSE 3

\* the stop record made for a must-visit name
MustVisitPlace(mv) == Place(mv, Dur_2_hours, "User-selected must-visit place.")

\* the place of the stay slot; the name is
\* f"Start from your stay: {stay_area} ({stay_type})", tabulated for the
\* stay areas and stay types of the requests
StayName(stay_area, stay_type) ==
    CASE stay_area = "Downtown" /\ stay_type = "Hotel" ->
            "Start from your stay: Downtown (Hotel)"

StayPlace(stay_area, stay_type) ==
    Place(StayName(stay_area, stay_type), Dur_10_min,
          "Starting point based on your accommodation.")

\* the while loop that draws the must-visit stops of one day; st is
\* [must_idx, places, used]
RECURSIVE MustVisitLoop(_, _, _, _)
MustVisitLoop(must_visit, st, quota, avoid_lower) ==
    IF ~(st.must_idx < Len(must_visit) /\ Len(st.places) < quota) THEN st
    ELSE LET mv == must_visit[st.must_idx + 1]
         IN  IF str_lower(mv) \in avoid_lower
             THEN MustVisitLoop(must_visit,
                                [st EXCEPT !.must_idx = st.must_idx + 1],
                                quota, avoid_lower)
             ELSE MustVisitLoop(must_visit,
                                [must_idx |-> st.must_idx + 1,
                                 places   |-> Append(st.places, MustVisitPlace(mv)),
                                 used     |-> st.used \cup {mv}],
                                quota, avoid_lower)

\* a variant that puts the library picks before the must-visit stops
DayPlaces_picks_first(must_visit, idx, used, quota, interests, avoid_lower) ==
    LET st == MustVisitLoop(must_visit,
                            [must_idx |-> idx, places |-> <<>>, used |-> used],
                            quota, avoid_lower)
    IN  IF Len(st.places) < quota
        THEN LET r == pick_places(interests, quota - Len(st.places),
                                  st.used, avoid_lower)
             IN  [must_idx |-> st.must_idx,
                  places   |-> r.picks \o st.places,
                  used     |-> r.used]
        ELSE st

\* the places of one day: the must-visit stops, then the library picks;
\* the result is [must_idx, places, used]
DayPlaces(must_visit, idx, used, quota, interests, avoid_lower) ==
    LET st == MustVisitLoop(must_visit,
                            [must_idx |-> idx, places |-> <<>>, used |-> used],
                            quota, avoid_lower)
    IN  IF Len(st.places) < quota
        THEN LET r == pick_places(interests, quota - Len(st.places),
                                  st.used, avoid_lower)
             IN  [must_idx |-> st.must_idx,
                  places   |-> st.places \o r.picks,
                  used     |-> r.used]
        ELSE st

\* the duration texts of the library and of the must-visit stops, parsed
\* once: parse_duration_to_minutes is a pure function
ParsedMinutes ==
    [d \in {Dur_45_60_min, Dur_1p5_2_hours, Dur_1p5_2p5_hours, Dur_2_3_hours,
            Dur_2_hours} |-> parse_duration_to_minutes(d)]

\* parse_duration_to_minutes(place.get("duration", "90 min"))
PlaceMinutes(place) ==
    IF place.duration \in DOMAIN ParsedMinutes
    THEN ParsedMinutes[place.duration]
    ELSE parse_duration_to_minutes(place.duration)

Slot(start_dt, end_dt, place, travel) ==
    [start |-> fmt_hhmm(start_dt),
     end   |-> fmt_hhmm(end_dt),
     place |-> place,
     estimated_travel_to_next_min |-> travel]

\* the value the loop gives estimated_travel_to_next_min: idx is the
\* position of the stop in the day's list, counted from 1
TravelToNext(idx, n_places, travel_gap) ==
    IF idx < n_places THEN travel_gap ELSE 0

\* "for idx, place in enumerate(places)" from the stop at position idx on
RECURSIVE TimelineLoop(_, _, _, _, _, _)
TimelineLoop(day_places, idx, cursor, timeline, day_end_dt, travel_gap) ==
    IF idx > Len(day_places) THEN timeline
    ELSE LET place   == day_places[idx]
             dur_min == PlaceMinutes(place)
             end_dt  == cursor + dur_min
         IN  IF end_dt > day_end_dt THEN timeline
             ELSE TimelineLoop(day_places, idx + 1, end_dt + travel_gap,
                      Append(timeline,
                             Slot(cursor, end_dt, place,
                                  TravelToNext(idx, Len(day_places), travel_gap))),
                      day_end_dt, travel_gap)

\* the timeline of one day: the stay slot, if a stay area is given, then
\* the stops
BuildTimeline(day_places, day_start_dt, day_end_dt, travel_gap, stay_area, stay_type) ==
    IF str_strip(stay_area) # ""
    THEN LET stay_block_end == day_start_dt + 10
         IN  TimelineLoop(day_places, 1, stay_block_end + travel_gap,
                          <<Slot(day_start_dt, stay_block_end,
                                 StayPlace(stay_area, stay_type), travel_gap)>>,
                          day_end_dt, travel_gap)
    ELSE TimelineLoop(day_places, 1, day_start_dt, <<>>, day_end_dt, travel_gap)

\* datetime.combine(day_date, t)
Combine(day_date, t) == day_date * 1440 + t

\* day_date.strftime("%a, %b %d"): the weekday and the day of the year's
\* calendar, the latter kept as the date's ordinal
day_date_label(day_date) ==
    [weekday |-> (day_date + 6) % 7, month_day |-> day_date]

\* x or [EM_DASH] for a list, x or EM_DASH for a string
OrDashList(x) == IF x # <<>> THEN x ELSE <<"EM_DASH">>
OrDash(x) == IF x # "" THEN x ELSE "EM_DASH"

\* the summary of the itinerary; the dates are echoed as str(date)
Summary(city, start_date, end_date, budget, pace, interests, transport, notes, stay_area, stay_type, must_visit, avoid, food_pref) ==
    "City" :> city @@
    "Start Date" :> start_date @@
    "End Date" :> end_date @@
    "Days" :> trip_days(start_date, end_date) @@
    "Budget" :> budget @@
    "Pace" :> pace @@
    "Interests" :> (IF interests # <<>> THEN interests ELSE <<"Any">>) @@
    "Transport" :> transport @@
    "Stay Area" :> OrDash(stay_area) @@
    "Stay Type" :> stay_type @@
    "Must-visit" :> OrDashList(must_visit) @@
    "Avoid" :> OrDashList(avoid) @@
    "Food Preference" :> OrDashList(food_pref) @@
    "Notes" :> OrDash(notes)

-----------------------------------------------------------------------------
(* The stored plan.  A value of st.session_state.latest_plan is tagged     *)
(* with its Python type: no entry, None, a dict (val maps its keys), a     *)
(* tuple (elems), or a value of another type.                              *)

Absent      == [kind |-> "absent"]
NoneValue   == [kind |-> "none"]
Dict(d)     == [kind |-> "dict", val |-> d]
Tuple(es)   == [kind |-> "tuple", elems |-> es]
Other(text) == [kind |-> "other", repr |-> text]

\* dicts an older version of the application stored
StaleNoDays    == "summary" :> ("City" :> "Paris")
StaleNoSummary == "days" :> <<>>

\* what the session may hold when the script starts
StoredValues ==
    {Absent, NoneValue, Other("rule"),
     Dict(StaleNoSummary),
     Tuple(<<Other("rule"), Dict(StaleNoDays)>>),
     Tuple(<<Other("rule"), Other("text")>>),
     Tuple(<<Other("rule"), Dict(StaleNoDays), Dict(StaleNoDays)>>)}

\* a variant that unwraps every 2-tuple, whatever its second element
MigratedPlan_any_pair(lp0) ==
    LET lp == IF lp0.kind = "absent" THEN NoneValue ELSE lp0
    IN  IF lp.kind = "tuple" /\ Len(lp.elems) = 2
        THEN lp.elems[2]
        ELSE IF lp.kind # "none" /\ lp.kind # "dict" THEN NoneValue
        ELSE lp

\* lines 480-488: the value of latest_plan after the migration step
MigratedPlan(lp0) ==
    LET lp == IF lp0.kind = "absent" THEN NoneValue ELSE lp0
    IN  IF lp.kind = "tuple" /\ Len(lp.elems) = 2 /\ lp.elems[2].kind = "dict"
        THEN lp.elems[2]
        ELSE IF lp.kind # "none" /\ lp.kind # "dict" THEN NoneValue
        ELSE lp

\* line 588: not isinstance(data, dict) or "summary" not in data or
\* "days" not in data
InvalidStored(data) ==
    \/ data.kind # "dict"
    \/ "summary" \notin DOMAIN data.val
    \/ "days" \notin DOMAIN data.val

-----------------------------------------------------------------------------
(* The explanation of a slot and the optional AI rewrite of a day.  A      *)
(* result of ai_rewrite_day_narrative is None, a string, or an exception   *)
(* that leaves the function.                                               *)

Str(text)   == [kind |-> "str", text |-> text]
Raised(exc) == [kind |-> "raised", exc |-> exc]
NotCalled   == [kind |-> "not_called"]

\* the truth value Python gives a result in "if rewritten:"
Truthy(v) == v.kind = "str" /\ v.text # ""

\* d.get(key, default) of a dict
DictGet(d, key, default) == IF key \in DOMAIN d THEN d[key] ELSE default

\* lines 243-286: the parts of the explanation that come from the fields the
\* model keeps of a slot (the sentences on activities, nearby places, food
\* and the tip repeat fixed display texts of the place)
generate_plan_explanation(day_num, city, slot, transport, pace) ==
    [header    |-> [start |-> slot.start, end |-> slot.end,
                    name |-> slot.place.name,
                    duration |-> slot.place.duration,
                    city |-> city, day_num |-> day_num],
     pace      |-> IF pace = "Packed"
                   THEN "Because your pace is **Packed**, this stop is kept efficient to fit more in the day."
                   ELSE IF pace = "Relaxed"
                   THEN "Because your pace is **Relaxed**, you have buffer time here for breaks and a slower walkthrough."
                   ELSE "With a **Balanced** pace, this block keeps the day structured but flexible.",
     transport   |-> transport,
     \* 0: no sentence on the next travel estimate
     travel_next |-> IF slot.estimated_travel_to_next_min > 0
                     THEN slot.estimated_travel_to_next_min ELSE 0]

\* os.getenv("OPENAI_API_KEY", ""): unset, blank, set
AiApiKeys == {"", "  ", "sk-test"}

\* what happens inside the try block once the key is there: the import
\* fails, the request fails, the response has no choices (IndexError), its
\* content is None (AttributeError on .strip()), or its content is a text
AiCallKinds == {"import_error", "network_error", "no_choices", "content_none", "content"}
AiContents == {"", "  ", " A full day in Paris. "}
AiCalls ==
    {[kind |-> k, text |-> ""] : k \in AiCallKinds \ {"content"}}
    \cup {[kind |-> "content", text |-> c] : c \in AiContents}

\* the call that is not made with the toggle off
NoAiCall == [kind |-> "not_called", text |-> ""]

\* a variant without the except clause for a failed request
ai_rewrite_day_narrative_uncaught(api_key, call) ==
    IF str_strip(api_key) = "" THEN NoneValue
    ELSE IF call.kind = "network_error" THEN Raised("APIConnectionError")
    ELSE IF call.kind # "content" THEN NoneValue
    ELSE Str(str_strip(call.text))

\* lines 427-474
ai_rewrite_day_narrative(api_key, call) ==
    IF str_strip(api_key) = "" THEN NoneValue
    ELSE IF call.kind # "content"
         THEN NoneValue                       \* except Exception: return None
         ELSE Str(str_strip(call.text))

-----------------------------------------------------------------------------
(* The sidebar's widgets.                                                  *)

StartDate  == 739016                   \* 2024-05-10 as a date ordinal
Spans      == (-1)..MaxSpan            \* end_date - start_date
StartTimes == {540, 775}               \* 9:00 AM, 12:55 PM
EndTimes   == {780, 1200}              \* 1:00 PM, 8:00 PM
Paces      == {"Relaxed", "Balanced", "Packed"}
Transports ==
    {"Public Transit", "Walking", "Rideshare/Taxi", "Rental Car"}
InterestLists == {<<>>, <<"Food">>, <<"Shopping", "Nature">>}
StayAreas  == {"", "Downtown"}
MustFields == {"Red Rocks", " Local Breakfast Cafe"}
MustTexts  == UNION {[1..n -> MustFields] : n \in 0..MaxMust}
AvoidTexts == {<<>>, <<"RED ROCKS", " Local Market / Food Street">>}
EmptyCities == {"", "  "}

\* the widgets' values when nothing has been entered
DefaultWidgets ==
    [city |-> "", start_date |-> StartDate, end_date |-> StartDate + 3,
     start_time |-> 540, day_end_time |-> 1200,
     budget |-> "Medium", pace |-> "Balanced",
     interests |-> <<"Food", "Nature", "History">>,
     transport |-> "Public Transit",
     stay_area |-> "", stay_type |-> "Hotel",
     must_visit_text |-> <<>>, avoid_text |-> <<>>,
     food_pref |-> <<"No preference">>, notes |-> "",
     use_ai_rewrite |-> FALSE,
     generate |-> FALSE]

\* the requests a click on Generate is drawn from
Requests ==
    {[DefaultWidgets EXCEPT
        !.city = "Paris", !.end_date = StartDate + r.span,
        !.start_time = r.start_time, !.day_end_time = r.day_end_time,
        !.pace = r.pace, !.interests = r.interests,
        !.transport = r.transport, !.stay_area = r.stay_area,
        !.must_visit_text = r.must, !.avoid_text = r.avoid,
        !.generate = TRUE] :
     r \in [span : Spans, start_time : StartTimes, day_end_time : EndTimes,
            pace : Paces, interests : InterestLists, transport : Transports,
            stay_area : StayAreas, must : MustTexts, avoid : AvoidTexts]}

\* the requests of the sessions that follow the AI rewrite toggle
AiSpans == {0, 1}
AiRequests ==
    {[DefaultWidgets EXCEPT
        !.city = "Paris", !.end_date = StartDate + r.span,
        !.day_end_time = r.day_end_time, !.pace = r.pace,
        !.stay_area = r.stay_area, !.use_ai_rewrite = r.use_ai_rewrite,
        !.generate = TRUE] :
     r \in [span : AiSpans, day_end_time : EndTimes,
            pace : {"Balanced", "Packed"}, stay_area : StayAreas,
            use_ai_rewrite : BOOLEAN]}

\* the arguments the handler passes to build_detailed_itinerary
ArgCity      == str_strip(req.city)
ArgStayArea  == str_strip(req.stay_area)
ArgMustVisit == parse_csv_list(req.must_visit_text)
ArgAvoid     == parse_csv_list(req.avoid_text)
ArgNotes     == str_strip(req.notes)

BlankScreen == [errors |-> <<>>, info |-> FALSE, summary |-> FALSE, days |-> <<>>, exception |-> FALSE]

-----------------------------------------------------------------------------
(* pick_places called on its own.                                          *)

NoPickCall == [kind |-> "none"]
NoResult   == [kind |-> "none"]

PickInterests ==
    {<<>>, <<"Food">>, <<"Nature", "Food">>, <<"Food", "Food">>,
     <<"Museums">>, <<"Shopping", "Relax">>}
PickCounts == 0..MaxStops
PickUsed ==
    {{}, {"Local Breakfast Cafe"}, {"Red Rocks"},
     {"Local Breakfast Cafe", "Local Market / Food Street",
      "Main City Park / Scenic Viewpoint", "Botanical Garden / Nature Trail",
      "Historic Old Town Walk", "Main Museum / Cultural Center",
      "Local Bazaar / Artisan Street"},
     {"Local Breakfast Cafe", "Local Market / Food Street",
      "Main City Park / Scenic Viewpoint", "Botanical Garden / Nature Trail",
      "Historic Old Town Walk", "Main Museum / Cultural Center",
      "Local Bazaar / Artisan Street", "Evening Walk + Night Market",
      "Spa / Slow Cafe + Park Time"}}
PickAvoids ==
    {{}, {"local market / food street"},
     {"signature dinner spot", "red rocks"},
     {"Local Market / Food Street"}}

PickCalls ==
    {[kind |-> "call", interests |-> a.interests, num_stops |-> a.num_stops,
      used_names |-> a.used_names, avoid_lower |-> a.avoid_lower,
      result |-> NoResult] :
     a \in [interests : PickInterests, num_stops : PickCounts,
            used_names : PickUsed, avoid_lower : PickAvoids]}

-----------------------------------------------------------------------------
(* The script.                                                             *)

Init ==
    /\ latest_plan \in StoredValues
    /\ pc = "migrate"
    /\ req = DefaultWidgets
    /\ i = 0
    /\ must_idx = 0
    /\ used_names = {}
    /\ places = <<>>
    /\ itinerary_days = <<>>
    /\ screen = BlankScreen
    /\ rerun = FALSE
    /\ generated = FALSE
    /\ pick_call = NoPickCall

\* lines 480-488: the start of a run
Migrate ==
    /\ pc = "migrate"
    /\ latest_plan' = MigratedPlan(latest_plan)
    /\ screen' = BlankScreen
    /\ pc' = "sidebar"
    /\ UNCHANGED <<pick_call, req, i, must_idx, used_names, places, itinerary_days,
                   rerun, generated>>

\* line 549: the button was not pressed
NoGenerate ==
    /\ pc = "sidebar"
    /\ req' = [req EXCEPT !.generate = FALSE]
    /\ pc' = "render"
    /\ UNCHANGED <<pick_call, latest_plan, i, must_idx, used_names, places,
                   itinerary_days, screen, rerun, generated>>

\* lines 549-551: Generate pressed with no city; the other widgets keep
\* their values but for the end date
GenerateEmptyCity ==
    /\ pc = "sidebar"
    /\ ~rerun
    /\ \E c \in EmptyCities, span \in Spans :
          req' = [req EXCEPT !.city = c, !.end_date = req.start_date + span,
                             !.generate = TRUE]
    /\ screen' = [screen EXCEPT
                    !.errors = Append(@, "Please enter a destination city.")]
    /\ pc' = "render"
    /\ UNCHANGED <<pick_call, latest_plan, i, must_idx, used_names, places,
                   itinerary_days, rerun, generated>>

\* lines 549-556 and 306-322: Generate pressed with a city; the call of
\* build_detailed_itinerary begins
GenerateFrom(requests) ==
    /\ pc = "sidebar"
    /\ ~rerun
    /\ ~generated
    /\ \E r \in requests :
          /\ str_strip(r.city) # ""
          /\ req' = r
    /\ i' = 0
    /\ must_idx' = 0
    /\ used_names' = {}
    /\ places' = <<>>
    /\ itinerary_days' = <<>>
    /\ pc' = "build"
    /\ UNCHANGED <<pick_call, latest_plan, screen, rerun, generated>>

GenerateStart == GenerateFrom(Requests)

\* the same handler when the sidebar also sets the AI rewrite toggle
GenerateStartAi == GenerateFrom(AiRequests)

\* lines 324-402: one iteration of the day loop
BuildDay ==
    /\ pc = "build"
    /\ i < trip_days(req.start_date, req.end_date)
    /\ LET day_date     == req.start_date + i
           day_start_dt == Combine(day_date, req.start_time)
           day_end_dt   == Combine(day_date, req.day_end_time)
           travel_gap   == travel_time_minutes(req.transport)
           dp == DayPlaces(ArgMustVisit, must_idx, used_names,
                           stops_per_day(req.pace), req.interests,
                           AvoidLower(ArgAvoid))
           timeline == BuildTimeline(dp.places, day_start_dt, day_end_dt,
                                     travel_gap, ArgStayArea, req.stay_type)
       IN  /\ must_idx' = dp.must_idx
           /\ used_names' = dp.used
           /\ places' = dp.places
           /\ itinerary_days' =
                 Append(itinerary_days,
                        [day |-> i + 1, date |-> day_date_label(day_date),
                         timeline |-> timeline])
    /\ i' = i + 1
    /\ UNCHANGED <<pick_call, latest_plan, pc, req, screen, rerun, generated>>

\* lines 404-421 and 574-575: the itinerary is returned and stored, and the
\* script is run again
GenerateFinish ==
    /\ pc = "build"
    /\ i = trip_days(req.start_date, req.end_date)
    /\ latest_plan' =
          Dict("summary" :> Summary(ArgCity, req.start_date, req.end_date,
                                    req.budget, req.pace, req.interests,
                                    req.transport, ArgNotes, ArgStayArea,
                                    req.stay_type, ArgMustVisit, ArgAvoid,
                                    req.food_pref)
               @@ "days" :> itinerary_days)
    /\ i' = 0
    /\ must_idx' = 0
    /\ used_names' = {}
    /\ places' = <<>>
    /\ itinerary_days' = <<>>
    /\ rerun' = TRUE
    /\ generated' = TRUE
    /\ pc' = "migrate"
    /\ UNCHANGED <<pick_call, req, screen>>

\* lines 584-585: nothing is stored
RenderEmpty ==
    /\ pc = "render"
    /\ latest_plan.kind = "none"
    /\ screen' = [screen EXCEPT !.info = TRUE]
    /\ pc' = "done"
    /\ UNCHANGED <<pick_call, latest_plan, req, i, must_idx, used_names, places,
                   itinerary_days, rerun, generated>>

\* lines 587-591: the stored value is not an itinerary
RenderInvalid ==
    /\ pc = "render"
    /\ latest_plan.kind # "none"
    /\ InvalidStored(latest_plan)
    /\ screen' = [screen EXCEPT
                    !.errors = Append(@, "Stored itinerary data is invalid")]
    /\ latest_plan' = NoneValue
    /\ pc' = "done"
    /\ UNCHANGED <<pick_call, req, i, must_idx, used_names, places, itinerary_days,
                   rerun, generated>>

\* what the page shows of one day: its number, the names of its slots, the
\* result of the rewrite (NotCalled with the toggle off), the narrative or
\* the notice written above the slots, and the explanation of every slot;
\* ai keeps the key and the fate of the call the result came from
ShownDay(day, summary, use_ai_rewrite, api_key, call) ==
    LET rewritten == IF use_ai_rewrite
                     THEN ai_rewrite_day_narrative(api_key, call)
                     ELSE NotCalled
    IN  [day          |-> day.day,
         slots        |-> [k \in 1..Len(day.timeline) |->
                              day.timeline[k].place.name],
         ai           |-> [api_key |-> api_key, call |-> call],
         rewritten    |-> rewritten,
         narrative    |-> IF Truthy(rewritten) THEN rewritten.text ELSE "",
         notice       |-> use_ai_rewrite /\ ~Truthy(rewritten),
         explanations |-> [k \in 1..Len(day.timeline) |->
                              generate_plan_explanation(
                                  day.day, DictGet(summary, "City", "EM_DASH"),
                                  day.timeline[k],
                                  DictGet(summary, "Transport", "EM_DASH"),
                                  DictGet(summary, "Pace", "Balanced"))]]

\* lines 593-658 with the AI rewrite off: the summary and every slot of
\* every day are written.  With the rewrite on, the summary and what
\* precedes the days is written; every day then waits for its call of
\* ai_rewrite_day_narrative.
RenderPlan ==
    /\ pc = "render"
    /\ latest_plan.kind # "none"
    /\ ~InvalidStored(latest_plan)
    /\ LET data == latest_plan.val
       IN  IF req.use_ai_rewrite
           THEN /\ screen' = [screen EXCEPT !.summary = TRUE]
                /\ pc' = IF data["days"] = <<>> THEN "done" ELSE "render_day"
           ELSE /\ screen' = [screen EXCEPT
                                !.summary = TRUE,
                                !.days = [k \in 1..Len(data["days"]) |->
                                             ShownDay(data["days"][k],
                                                      data["summary"], FALSE,
                                                      "", NoAiCall)]]
                /\ pc' = "done"
    /\ UNCHANGED <<pick_call, latest_plan, req, i, must_idx, used_names, places,
                   itinerary_days, rerun, generated>>

\* lines 612-658, one iteration of the loop over the days with the rewrite
\* on: the call reads the key, is answered or fails, and the day is written;
\* an exception that leaves ai_rewrite_day_narrative ends the run before
\* the day's slots are written
RenderDay ==
    /\ pc = "render_day"
    /\ LET data == latest_plan.val
           k    == Len(screen.days) + 1
       IN  \E api_key \in AiApiKeys, call \in AiCalls :
              LET sd == ShownDay(data["days"][k], data["summary"], TRUE,
                                 api_key, call)
              IN  IF sd.rewritten.kind = "raised"
                  THEN /\ screen' = [screen EXCEPT !.exception = TRUE]
                       /\ pc' = "done"
                  ELSE /\ screen' = [screen EXCEPT !.days = Append(@, sd)]
                       /\ pc' = IF k = Len(data["days"]) THEN "done"
                                ELSE "render_day"
    /\ UNCHANGED <<pick_call, latest_plan, req, i, must_idx, used_names, places,
                   itinerary_days, rerun, generated>>

\* a widget is touched while the run waits for a day's rewrite: the run
\* ends where it is and the script starts again, the toggle as it was or
\* changed
InterruptRender ==
    /\ pc = "render_day"
    /\ \E b \in BOOLEAN : req' = [req EXCEPT !.use_ai_rewrite = b]
    /\ pc' = "migrate"
    /\ rerun' = FALSE
    /\ UNCHANGED <<pick_call, latest_plan, i, must_idx, used_names, places,
                   itinerary_days, screen, generated>>

\* the user touches a widget: the script runs again (the model follows a
\* session up to the page that shows the itinerary it generated)
NewRun ==
    /\ pc = "done"
    /\ ~generated
    /\ pc' = "migrate"
    /\ rerun' = FALSE
    /\ UNCHANGED <<pick_call, latest_plan, req, i, must_idx, used_names, places,
                   itinerary_days, screen, generated>>

Next ==
    \/ Migrate
    \/ NoGenerate
    \/ GenerateEmptyCity
    \/ GenerateStart
    \/ BuildDay
    \/ GenerateFinish
    \/ RenderEmpty
    \/ RenderInvalid
    \/ RenderPlan
    \/ NewRun

Spec == Init /\ [][Next]_vars

\* the sessions in which the sidebar sets the AI rewrite toggle
NextAiRewrite ==
    \/ Migrate
    \/ NoGenerate
    \/ GenerateEmptyCity
    \/ GenerateStartAi
    \/ BuildDay
    \/ GenerateFinish
    \/ RenderEmpty
    \/ RenderInvalid
    \/ RenderPlan
    \/ RenderDay
    \/ InterruptRender
    \/ NewRun

SpecAiRewrite == Init /\ [][NextAiRewrite]_vars

\* pick_places on its own: the arguments are drawn, the call returns
InitPick ==
    /\ latest_plan = NoneValue
    /\ pc = "pick_places"
    /\ req = DefaultWidgets
    /\ i = 0
    /\ must_idx = 0
    /\ used_names = {}
    /\ places = <<>>
    /\ itinerary_days = <<>>
    /\ screen = BlankScreen
    /\ rerun = FALSE
    /\ generated = FALSE
    /\ pick_call \in PickCalls

PickPlaces ==
    /\ pc = "pick_places"
    /\ pick_call' =
          [pick_call EXCEPT
             !.result = pick_places(pick_call.interests, pick_call.num_stops,
                                    pick_call.used_names,
                                    pick_call.avoid_lower)]
    /\ pc' = "picked"
    /\ UNCHANGED <<latest_plan, req, i, must_idx, used_names, places,
                   itinerary_days, screen, rerun, generated>>

NextPick == PickPlaces

SpecPick == InitPick /\ [][NextPick]_vars

-----------------------------------------------------------------------------
(* Properties.  The days of the itinerary under construction, and of the   *)
(* itinerary the call returned (the state in which the handler has stored  *)
(* it), are read through BuiltDays.                                        *)

\* the page shows the error text
ClaimShowsError(page, text) ==
    \E k \in 1..Len(page.errors) : page.errors[k] = text

Returned == generated /\ pc = "migrate"

BuiltDays ==
    IF pc = "build" THEN itinerary_days
    ELSE IF Returned THEN latest_plan.val["days"]
    ELSE <<>>

\* the minutes after midnight a formatted clock time stands for
ClockMinutes(t) ==
    ((t.hour % 12) + (IF t.ampm = "PM" THEN 12 ELSE 0)) * 60 + t.minute

IsStaySlot(slot) ==
    slot.place.description = "Starting point based on your accommodation."

IsMustVisitSlot(slot) ==
    slot.place.description = "User-selected must-visit place."

\* the positions <<day, slot>> of the slots of the days built
SlotPositions ==
    {<<d, k>> \in (1..Len(BuiltDays)) \X (1..5) :
        k <= Len(BuiltDays[d].timeline)}

SlotAt(pos) == BuiltDays[pos[1]].timeline[pos[2]]

\* the travel gap the specification tabulates
TabulatedGap(transport) ==
    CASE transport = "Walking" -> 15
      [] transport = "Public Transit" -> 25
      [] transport = "Rideshare/Taxi" -> 18
      [] transport = "Rental Car" -> 20
      [] OTHER -> 20

\* C1: every slot of every day, the stay slot included, ends no later than
\* the day's configured end time.
C1_SlotsEndByDayEnd ==
    \A pos \in SlotPositions :
        ClockMinutes(SlotAt(pos).end) <= req.day_end_time

\* C2: no stop name, the stay slot aside, occurs in more than one slot of
\* the itinerary.
C2_NoStopNameTwice ==
    \A p1 \in SlotPositions : \A p2 \in SlotPositions :
        (/\ p1 # p2
         /\ ~IsStaySlot(SlotAt(p1))
         /\ ~IsStaySlot(SlotAt(p2)))
        => SlotAt(p1).place.name # SlotAt(p2).place.name

\* C3: in every day the last slot has estimated_travel_to_next_min 0 and
\* every other slot has the transport's travel gap.
C3_TravelToNextOfLastIsZero ==
    \A pos \in SlotPositions :
        SlotAt(pos).estimated_travel_to_next_min =
            IF pos[2] = Len(BuiltDays[pos[1]].timeline) THEN 0
            ELSE TabulatedGap(req.transport)

\* C4: between adjacent slots of a day, the stay slot included, the earlier
\* slot ends no later than the later one starts, and the time between them
\* is the tabulated travel gap of the transport.
C4_AdjacentSlotsGap ==
    /\ \A pos \in SlotPositions :
          pos[2] > 1 =>
              LET earlier == SlotAt(<<pos[1], pos[2] - 1>>)
                  later   == SlotAt(pos)
              IN  /\ ClockMinutes(earlier.end) <= ClockMinutes(later.start)
                  /\ ClockMinutes(later.start) - ClockMinutes(earlier.end)
                        = TabulatedGap(req.transport)
    \* the sidebar offers the four transports of the table; for a value it
    \* does not offer the function itself gives the gap
    /\ \A other \in {"Bicycle", ""} :
          travel_time_minutes(other) = TabulatedGap(other)

\* C4, its case: a day that holds the stay slot and two stops after it,
\* travelled by taxi.
C4_Witness ==
    /\ req.transport = "Rideshare/Taxi"
    /\ \E pos \in SlotPositions :
          /\ pos[2] = 3
          /\ IsStaySlot(SlotAt(<<pos[1], 1>>))

\* the request as the claims read it: the must-visit names and the avoid
\* terms the fields hold, the quota of the pace, the number of days
ClaimMust ==
    SelectSeq([k \in 1..Len(req.must_visit_text) |->
                  str_strip(req.must_visit_text[k])],
              LAMBDA m : m # "")

ClaimAvoidSet ==
    {str_lower(t) :
        t \in {str_strip(req.avoid_text[k]) : k \in 1..Len(req.avoid_text)}
              \ {""}}

ClaimNonAvoidedMust ==
    SelectSeq(ClaimMust, LAMBDA m : str_lower(m) \notin ClaimAvoidSet)

ClaimQuota ==
    CASE req.pace = "Relaxed" -> 2
      [] req.pace = "Packed" -> 4
      [] OTHER -> 3

ClaimDays ==
    IF req.end_date - req.start_date + 1 >= 1
    THEN req.end_date - req.start_date + 1
    ELSE 1

Min(a, b) == IF a <= b THEN a ELSE b

\* the stop slots of a timeline: its slots without the stay slot
StopSlots(timeline) == SelectSeq(timeline, LAMBDA sl : ~IsStaySlot(sl))

\* C5, as the specification states it: every must-visit name that is not
\* avoided and whose rank among such names is at most days * quota has a
\* slot in some day of the returned itinerary, before every catalog stop
\* of that day.
C5_MustVisitGetsSlot ==
    (pc = "build" /\ i = ClaimDays) =>
        \A r \in 1..Len(ClaimNonAvoidedMust) :
            r <= ClaimDays * ClaimQuota =>
                \E pos \in SlotPositions :
                    /\ IsMustVisitSlot(SlotAt(pos))
                    /\ SlotAt(pos).place.name = ClaimNonAvoidedMust[r]
                    /\ \A k \in 1..(pos[2] - 1) :
                          LET before == SlotAt(<<pos[1], k>>)
                          IN  IsStaySlot(before) \/ IsMustVisitSlot(before)

\* C5, amended: the must-visit names of ranks (i-1)*quota+1 .. i*quota are
\* the head of day i's ordered stop list, before every catalog stop; the
\* day's stop slots follow the list's order; and the k-th of them has a slot
\* exactly when it ends by the day's end time, the k must-visit stops taking
\* 120 minutes each, with a travel gap between them, after the stay slot's
\* 10 minutes and travel gap if there is a stay slot.
C5_MustVisitHeadsDay ==
    (pc = "build" /\ i >= 1) =>
        LET q      == ClaimQuota
            lo     == (i - 1) * q
            n      == Min(q, Max(0, Len(ClaimNonAvoidedMust) - lo))
            gap    == TabulatedGap(req.transport)
            offset == IF str_strip(req.stay_area) # "" THEN 10 + gap ELSE 0
            stops  == StopSlots(BuiltDays[i].timeline)
        IN  /\ n <= Len(places)
            /\ \A k \in 1..n :
                  /\ places[k].name = ClaimNonAvoidedMust[lo + k]
                  /\ places[k].description = "User-selected must-visit place."
            /\ \A k \in (n + 1)..Len(places) :
                  places[k].description # "User-selected must-visit place."
            /\ Len(stops) <= Len(places)
            /\ \A k \in 1..Len(stops) : stops[k].place = places[k]
            /\ \A k \in 1..n :
                  (k <= Len(stops)) <=>
                      (offset + 120 * k + gap * (k - 1)
                          <= req.day_end_time - req.start_time)

\* C5, its case: a day whose list holds two must-visit stops or more, of
\* which the first has a slot and a later one was dropped for the day's end.
C5_Witness ==
    /\ pc = "build"
    /\ i >= 1
    /\ Len(places) >= 2
    /\ places[2].description = "User-selected must-visit place."
    /\ Len(StopSlots(BuiltDays[i].timeline)) = 1

\* the names of the library
CatalogNames ==
    UNION {{PLACE_LIBRARY[t][k].name : k \in 1..Len(PLACE_LIBRARY[t])} :
           t \in DOMAIN PLACE_LIBRARY}

\* the number of names among the first p must-visit names that are not
\* avoided
NonAvoidedUpTo(p) ==
    Cardinality({j \in 1..p : str_lower(ClaimMust[j]) \notin ClaimAvoidSet})

\* C6: no slot, the stay slot aside, holds a name whose lowercased form is
\* in the avoid-set; the must-visit queue is consumed up to the entry that
\* fills the quota of the days built, avoided entries included, so that an
\* avoided entry is not met again; and the day's list holds no avoided name
\* and is filled up to the quota from the must-visit names that follow and
\* from the catalog names still unused and not avoided.
C6_AvoidedNeverPlaced ==
    pc = "build" =>
        LET q     == ClaimQuota
            total == NonAvoidedUpTo(Len(ClaimMust))
            picks == {places[k].name :
                        k \in {n \in 1..Len(places) :
                                 places[n].description
                                    # "User-selected must-visit place."}}
            musts == {k \in 1..Len(places) :
                        places[k].description
                           = "User-selected must-visit place."}
            avail == {c \in CatalogNames :
                        /\ str_lower(c) \notin ClaimAvoidSet
                        /\ (c \notin used_names \/ c \in picks)}
        IN  /\ \A pos \in SlotPositions :
                  ~IsStaySlot(SlotAt(pos)) =>
                      str_lower(SlotAt(pos).place.name) \notin ClaimAvoidSet
            /\ must_idx =
                  IF total >= i * q
                  THEN CHOOSE p \in 0..Len(ClaimMust) :
                          /\ NonAvoidedUpTo(p) = i * q
                          /\ \A p2 \in 0..(p - 1) : NonAvoidedUpTo(p2) < i * q
                  ELSE Len(ClaimMust)
            /\ i >= 1 =>
                  /\ \A k \in 1..Len(places) :
                        str_lower(places[k].name) \notin ClaimAvoidSet
                  /\ Len(places) =
                        Min(q, Cardinality(musts) + Cardinality(avail))

\* C6, its case: an avoided must-visit name has been consumed, and the day's
\* list is full, with a must-visit name that followed it and catalog stops.
C6_Witness ==
    /\ pc = "build"
    /\ i >= 1
    /\ \E j \in 1..must_idx : str_lower(ClaimMust[j]) \in ClaimAvoidSet
    /\ Len(places) = ClaimQuota
    /\ places[1].description = "User-selected must-visit place."
    /\ places[Len(places)].description # "User-selected must-visit place."

\* C7: the returned itinerary has max(1, (end_date - start_date).days + 1)
\* days, numbered 1, 2, ... in list order, and its summary's Days is that
\* number.
C7_DayCount ==
    Returned =>
        LET plan == latest_plan.val
        IN  /\ Len(plan["days"]) = ClaimDays
            /\ \A k \in 1..Len(plan["days"]) : plan["days"][k].day = k
            /\ plan["summary"]["Days"] = ClaimDays

\* C7, its case: an itinerary returned for an end date before the start date.
C7_Witness ==
    /\ Returned
    /\ req.end_date < req.start_date
    /\ Len(latest_plan.val["days"]) = 1

\* C8: a press of Generate with an input error (no city, or an end date
\* before the start date) shows an error, does not run
\* build_detailed_itinerary and leaves latest_plan as it was.
C8_InputErrorStopsGeneration ==
    [][(/\ pc = "sidebar"
        /\ req'.generate
        /\ (str_strip(req'.city) = "" \/ req'.end_date < req'.start_date))
       => (/\ screen'.errors # <<>>
           /\ pc' # "build"
           /\ latest_plan' = latest_plan)]_vars

\* C9: for pace Packed, transport Walking, one day, no must-visit names, no
\* avoid terms, no stay area, interests [Food] and a day long enough for the
\* stop, the quota is 4, the travel gap 15 minutes, and the first slot is
\* "Local Breakfast Cafe", starting at the configured start time, its
\* duration text "45-60 min" (with U+2013) parsed to 53 minutes, ending 53
\* minutes after the start.
C9_PackedWalkingFoodExample ==
    (/\ pc = "build"
     /\ i = 1
     /\ req.pace = "Packed"
     /\ req.transport = "Walking"
     /\ req.end_date = req.start_date
     /\ req.must_visit_text = <<>>
     /\ req.avoid_text = <<>>
     /\ req.stay_area = ""
     /\ req.interests = <<"Food">>
     /\ req.day_end_time - req.start_time >= 60)
    => /\ stops_per_day(req.pace) = 4
       /\ Len(places) = 4
       /\ travel_time_minutes(req.transport) = 15
       /\ Len(itinerary_days[1].timeline) >= 1
       /\ LET first == itinerary_days[1].timeline[1]
          IN  /\ first.place.name = "Local Breakfast Cafe"
              /\ first.place.duration = Dur_45_60_min
              /\ ClockMinutes(first.start) = req.start_time
              /\ parse_duration_to_minutes(first.place.duration) = 53
              /\ ClockMinutes(first.end) = req.start_time + 53

\* the value the migration step is to leave: the dict of an old 2-tuple,
\* a dict as it is, None for anything else
ClaimMigrated(lp) ==
    IF lp.kind = "tuple" /\ Len(lp.elems) = 2 /\ lp.elems[2].kind = "dict"
    THEN lp.elems[2]
    ELSE IF lp.kind = "dict" THEN lp
    ELSE NoneValue

ClaimHasFields(lp) ==
    lp.kind = "dict" /\ {"summary", "days"} \subseteq DOMAIN lp.val

\* C10: after the migration step latest_plan is None or a dict (the dict of
\* an old 2-tuple, None for any other non-dict); the page shows a summary or
\* a day only of a dict that has "summary" and "days"; and rendering a dict
\* that lacks one of them shows the error, resets latest_plan to None and
\* shows no summary and no day.
C10_StoredPlanChecked ==
    /\ [](pc # "migrate" => latest_plan.kind \in {"none", "dict"})
    /\ []((screen.summary \/ screen.days # <<>>) => ClaimHasFields(latest_plan))
    /\ [][pc = "migrate" => latest_plan' = ClaimMigrated(latest_plan)]_vars
    /\ [][(/\ pc = "render"
           /\ latest_plan.kind = "dict"
           /\ ~ClaimHasFields(latest_plan))
          => (/\ latest_plan' = NoneValue
              /\ ClaimShowsError(screen', "Stored itinerary data is invalid")
              /\ ~screen'.summary
              /\ screen'.days = <<>>
              /\ pc' = "done")]_vars

\* C10, its case: a stored dict without "days", unwrapped from an old
\* 2-tuple, has been refused by the render step.
C10_Witness ==
    /\ pc = "done"
    /\ ClaimShowsError(screen, "Stored itinerary data is invalid")
    /\ latest_plan = NoneValue
    /\ screen.days = <<>>

\* C11: with the AI rewrite on, a call of ai_rewrite_day_narrative that fails
\* (no API key, import failure, failed request, a response without choices
\* or without content) returns None and no exception leaves it: the render
\* loop reaches every day.  For a day whose rewrite returned None the notice
\* is written in place of a narrative and the explanation of every slot of
\* the day is written, the same explanations as with the toggle off.
ClaimRewriteFailed(ai) ==
    \/ str_strip(ai.api_key) = ""
    \/ ai.call.kind \in {"import_error", "network_error", "no_choices", "content_none"}

ClaimExplanationsWhenOff(day, summary) ==
    ShownDay(day, summary, FALSE, "", NoAiCall).explanations

C11_RewriteFailureFallsBack ==
    (pc = "done" /\ screen.summary /\ req.use_ai_rewrite) =>
        LET data == latest_plan.val
        IN  /\ ~screen.exception
            /\ Len(screen.days) = Len(data["days"])
            /\ \A k \in 1..Len(screen.days) :
                  LET sd  == screen.days[k]
                      day == data["days"][k]
                  IN  /\ ClaimRewriteFailed(sd.ai) => sd.rewritten = NoneValue
                      /\ sd.rewritten = NoneValue =>
                            /\ sd.narrative = ""
                            /\ sd.notice
                            /\ Len(sd.explanations) = Len(day.timeline)
                            /\ sd.slots = [j \in 1..Len(day.timeline) |->
                                              day.timeline[j].place.name]
                            /\ sd.explanations =
                                  ClaimExplanationsWhenOff(day, data["summary"])

\* a two-day page with the toggle on and a key set: the first day's response
\* had no content, the second day's request failed, and each day shows the
\* explanations of its slots
C11_Witness ==
    /\ pc = "done"
    /\ req.use_ai_rewrite
    /\ screen.summary
    /\ Len(screen.days) = 2
    /\ screen.days[1].ai.api_key = "sk-test"
    /\ screen.days[1].ai.call.kind = "content_none"
    /\ screen.days[2].ai.call.kind = "network_error"
    /\ screen.days[1].rewritten = NoneValue
    /\ screen.days[2].rewritten = NoneValue
    /\ Len(screen.days[1].explanations) >= 3
    /\ Len(screen.days[2].explanations) >= 2
    /\ screen.days[2].notice

\* C12: pick_places(interests, N, used, avoid) returns min(N, A) stops, A the
\* number of catalog stops whose name is not in used and whose lowercased
\* name is not in avoid; the stops returned are such stops, pairwise
\* distinct, and used grows by exactly their names; the stops of the
\* selected tags come first, in the order the tags were selected and then
\* the catalog's, the others follow in the catalog's order, and a stop is
\* returned only when every eligible stop before it in that order is too,
\* so a stop of a tag not selected only with all eligible selected ones.
ClaimCatalog == ExtendPools(LibraryTags)

\* the names of the stops of the tags selected
ClaimSelectedNames(interests) ==
    {ExtendPools(interests)[k].name : k \in 1..Len(ExtendPools(interests))}

ClaimEligible(call) ==
    {n \in CatalogNames :
        n \notin call.used_names /\ str_lower(n) \notin call.avoid_lower}

\* the order of preference: the selected tags' stops, then the catalog
ClaimCandidates(interests) == ExtendPools(interests) \o ClaimCatalog

ClaimRank(n, interests) ==
    LET c == ClaimCandidates(interests)
    IN  CHOOSE k \in 1..Len(c) :
           c[k].name = n /\ \A j \in 1..(k - 1) : c[j].name # n

C12_PickPlacesCount ==
    pc = "picked" =>
        LET picks    == pick_call.result.picks
            names    == {picks[k].name : k \in 1..Len(picks)}
            eligible == ClaimEligible(pick_call)
            selected == ClaimSelectedNames(pick_call.interests)
        IN  /\ Len(picks) = Min(pick_call.num_stops, Cardinality(eligible))
            /\ \A j, k \in 1..Len(picks) :
                  j # k => picks[j].name # picks[k].name
            /\ \A k \in 1..Len(picks) :
                  /\ picks[k].name \in eligible
                  /\ \E n \in 1..Len(ClaimCatalog) : ClaimCatalog[n] = picks[k]
            /\ pick_call.result.used = pick_call.used_names \cup names
            /\ (names \ selected # {}) => (selected \cap eligible) \subseteq names
            /\ \A j, k \in 1..Len(picks) :
                  j < k => ClaimRank(picks[j].name, pick_call.interests)
                             < ClaimRank(picks[k].name, pick_call.interests)
            /\ \A n \in names, m \in eligible :
                  ClaimRank(m, pick_call.interests)
                     < ClaimRank(n, pick_call.interests) => m \in names

\* Nature and Food selected, four stops asked for, one Food stop used and
\* one avoided: the two Nature stops, the one Food stop left, and a History
\* stop from the second pass
C12_Witness ==
    /\ pc = "picked"
    /\ pick_call.interests = <<"Nature", "Food">>
    /\ pick_call.num_stops = 4
    /\ pick_call.used_names = {"Local Breakfast Cafe"}
    /\ pick_call.avoid_lower = {"local market / food street"}
    /\ Len(pick_call.result.picks) = 4
    /\ pick_call.result.picks[1].name = "Main City Park / Scenic Viewpoint"
    /\ pick_call.result.picks[3].name = "Signature Dinner Spot"
    /\ pick_call.result.picks[4].name = "Historic Old Town Walk"

\* C13: in every day built, the stops of the day's timeline are the stops of
\* the day's ordered stop list up to the first one that would end after the
\* day's end time; that stop and every stop after it in the list is left
\* out, whatever its length; and no stop left out of a day has a slot in the
\* timeline of a later day.
RECURSIVE ClaimStopLists(_, _, _)
ClaimStopLists(d, idx, used) ==
    IF d > ClaimDays THEN <<>>
    ELSE LET dp == DayPlaces(ArgMustVisit, idx, used, ClaimQuota,
                             req.interests, AvoidLower(ArgAvoid))
         IN  <<dp.places>> \o ClaimStopLists(d + 1, dp.must_idx, dp.used)

\* the position in list of the first stop that would end after day_end, the
\* stops before it taken one after the other from cursor on with gap
\* between them; Len(list) + 1 if there is none
RECURSIVE ClaimFirstOverflow(_, _, _, _, _)
ClaimFirstOverflow(list, k, cursor, gap, day_end) ==
    IF k > Len(list) THEN k
    ELSE IF cursor + PlaceMinutes(list[k]) > day_end THEN k
    ELSE ClaimFirstOverflow(list, k + 1,
                            cursor + PlaceMinutes(list[k]) + gap, gap, day_end)

ClaimFirstCursor ==
    req.start_time
       + (IF ArgStayArea # "" THEN 10 + TabulatedGap(req.transport) ELSE 0)

\* the number of stops of the list that have a slot in the day
ClaimKept(list) ==
    ClaimFirstOverflow(list, 1, ClaimFirstCursor,
                       TabulatedGap(req.transport), req.day_end_time) - 1

ClaimDropped(list) ==
    {list[k].name : k \in (ClaimKept(list) + 1)..Len(list)}

ClaimEmitted(day) ==
    {StopSlots(day.timeline)[k].place.name :
        k \in 1..Len(StopSlots(day.timeline))}

C13_OverflowDropsRestOfDay ==
    pc = "build" =>
        LET lists == ClaimStopLists(1, 0, {})
        IN  /\ \A d \in 1..Len(itinerary_days) :
                  LET stops == StopSlots(itinerary_days[d].timeline)
                  IN  /\ Len(stops) = ClaimKept(lists[d])
                      /\ \A k \in 1..Len(stops) : stops[k].place = lists[d][k]
            /\ \A d, e \in 1..Len(itinerary_days) :
                  d < e => ClaimDropped(lists[d])
                              \cap ClaimEmitted(itinerary_days[e]) = {}

\* the same for the requests whose must-visit names are pairwise distinct
C13_DistinctMustVisit ==
    (\A j, k \in 1..Len(ClaimMust) : j # k => ClaimMust[j] # ClaimMust[k])
        => C13_OverflowDropsRestOfDay

====
